---- MODULE Spec2Model ----
(***************************************************************************)
(* Model of the Binance Futures testnet bot: the validator of utils.py,    *)
(* the CLI entry point main() of bot.py and the BasicBot wrapper of        *)
(* basic_bot.py around the exchange client.                                *)
(*                                                                         *)
(* Python strings are sequences of one-character strings, so that len,     *)
(* slicing, upper(), isupper(), isalpha() and float() are computed the way *)
(* Python computes them.  A Python float is a record [nan, val] whose val  *)
(* is the number in thousandths.                                           *)
(***************************************************************************)
EXTENDS Integers, Sequences, FiniteSets, TLC

VARIABLES
    pc,             \* position of main(): see the actions below
    args,           \* argparse namespace: symbol, side, type, quantity, price, stop_price
    is_valid,       \* bot.py:105  first component of the validator's result
    error_msg,      \* bot.py:105  second component
    validated_data, \* bot.py:105  third component (a dict: function on its keys)
    client,         \* "none" | "ok" | "raised": outcome of Client(...) in BasicBot.__init__
    time_offset,    \* BasicBot.time_offset
    calls,          \* calls issued to the exchange client, in order
    method,         \* the place_*_order call made by main: name and keyword arguments
    order,          \* receipt returned by place_*_order ("none" when there is none)
    displayed,      \* what utils.display_* printed, in order
    exit_code,      \* process exit status; -1 while running
    traceback       \* TRUE when the process died of an exception nobody caught

vars == <<pc, args, is_valid, error_msg, validated_data, client, time_offset,
          calls, method, order, displayed, exit_code, traceback>>

----------------------------------------------------------------------------
(* Python str primitives *)

LowerSeq == <<"a","b","c","d","e","f","g","h","i","j","k","l","m",
              "n","o","p","q","r","s","t","u","v","w","x","y","z">>
UpperSeq == <<"A","B","C","D","E","F","G","H","I","J","K","L","M",
              "N","O","P","Q","R","S","T","U","V","W","X","Y","Z">>
DigitSeq == <<"0","1","2","3","4","5","6","7","8","9">>

IsLowerChar(c) == \E i \in DOMAIN LowerSeq : LowerSeq[i] = c
IsUpperChar(c) == \E i \in DOMAIN UpperSeq : UpperSeq[i] = c
IsDigitChar(c) == \E i \in DOMAIN DigitSeq : DigitSeq[i] = c
DigitVal(c) == (CHOOSE i \in DOMAIN DigitSeq : DigitSeq[i] = c) - 1

UpperChar(c) ==
    IF IsLowerChar(c)
    THEN UpperSeq[CHOOSE i \in DOMAIN LowerSeq : LowerSeq[i] = c]
    ELSE c

\* str.upper()
str_upper(s) == [i \in 1..Len(s) |-> UpperChar(s[i])]

\* str.isupper(): no lowercase cased character and at least one cased character
str_isupper(s) ==
    /\ \A i \in 1..Len(s) : ~IsLowerChar(s[i])
    /\ \E i \in 1..Len(s) : IsUpperChar(s[i])

\* str.isalpha(): non-empty and every character alphabetic
str_isalpha(s) ==
    /\ Len(s) > 0
    /\ \A i \in 1..Len(s) : IsLowerChar(s[i]) \/ IsUpperChar(s[i])

\* s[-4:]
last4(s) == IF Len(s) <= 4 THEN s ELSE SubSeq(s, Len(s) - 3, Len(s))

\* Python's None, as a value no character sequence equals
None == <<"None">>

\* truth value of an Optional[str]: None and "" are falsy
Truthy(s) == s # None /\ Len(s) > 0

S_USDT == <<"U","S","D","T">>
S_BUY == <<"B","U","Y">>
S_SELL == <<"S","E","L","L">>
S_MARKET == <<"M","A","R","K","E","T">>
S_LIMIT == <<"L","I","M","I","T">>
S_STOP_LIMIT == <<"S","T","O","P","_","L","I","M","I","T">>
S_STOP == <<"S","T","O","P">>
S_GTC == <<"G","T","C">>
S_nan == <<"n","a","n">>

----------------------------------------------------------------------------
(* Python float(): sign, digits, optional point and digits; "nan"; anything  *)
(* else (and None) raises.  Exact on strings over sign, digit, point and     *)
(* letters other than those of inf/infinity/exponents, with at most three    *)
(* fractional digits.                                                        *)

RECURSIVE DigitsValue(_)
DigitsValue(s) ==
    IF Len(s) = 0 THEN 0
    ELSE 10 * DigitsValue(SubSeq(s, 1, Len(s) - 1)) + DigitVal(s[Len(s)])

RECURSIVE Pow10(_)
Pow10(n) == IF n <= 0 THEN 1 ELSE 10 * Pow10(n - 1)

Unsigned(s) == IF Len(s) > 0 /\ s[1] \in {"-", "+"} THEN Tail(s) ELSE s
PointAt(s) == {i \in 1..Len(s) : s[i] = "."}
NoPoint(s) == SelectSeq(s, LAMBDA c : c # ".")
FracDigits(s) == IF PointAt(s) = {} THEN 0
                 ELSE Len(s) - (CHOOSE i \in PointAt(s) : TRUE)

float_ok(s) ==
    /\ s # None
    /\ \/ s = S_nan
       \/ /\ Cardinality(PointAt(Unsigned(s))) <= 1
          /\ Len(NoPoint(Unsigned(s))) > 0
          /\ \A i \in 1..Len(NoPoint(Unsigned(s))) : IsDigitChar(NoPoint(Unsigned(s))[i])
          /\ FracDigits(Unsigned(s)) <= 3

float(s) ==
    IF s = S_nan THEN [nan |-> TRUE, val |-> 0]
    ELSE LET u == Unsigned(s)
             m == DigitsValue(NoPoint(u)) * Pow10(3 - FracDigits(u))
         IN  [nan |-> FALSE, val |-> IF s[1] = "-" THEN 0 - m ELSE m]

\* f > 0 on floats: every comparison with nan is false
Positive(f) == ~f.nan /\ f.val > 0

----------------------------------------------------------------------------
(* utils.py: field validators *)

\* mutant: the disjunction bound the other way, isupper() and (isalpha() or USDT)
validate_symbol_regrouped(symbol) ==
    IF Len(symbol) = 0 \/ Len(symbol) < 6 THEN FALSE
    ELSE str_isupper(symbol) /\ (str_isalpha(symbol) \/ last4(symbol) = S_USDT)

validate_symbol(symbol) ==
    IF Len(symbol) = 0 \/ Len(symbol) < 6 THEN FALSE
    ELSE (str_isupper(symbol) /\ str_isalpha(symbol)) \/ last4(symbol) = S_USDT

validate_side(side) == str_upper(side) \in {S_BUY, S_SELL}

validate_order_type(order_type) ==
    str_upper(order_type) \in {S_MARKET, S_LIMIT, S_STOP_LIMIT}

\* try: float(quantity) > 0  except (ValueError, TypeError): False
validate_quantity(quantity) == float_ok(quantity) /\ Positive(float(quantity))

validate_price(price) == float_ok(price) /\ Positive(float(price))

----------------------------------------------------------------------------
(* utils.py: parse_and_validate_inputs *)

MSG_SYMBOL == "Invalid symbol format (e.g., BTCUSDT)"
MSG_SIDE == "Side must be BUY or SELL"
MSG_TYPE == "Order type must be MARKET, LIMIT, or STOP_LIMIT"
MSG_QUANTITY == "Quantity must be a positive number"
MSG_PRICE == "Price is required and must be positive for LIMIT orders"
MSG_STOP == "Stop price is required and must be positive for STOP_LIMIT orders"
SEP == " | "

\* errors.append(m) when the rule is violated
append_if(violated, m) == IF violated THEN <<m>> ELSE <<>>

\* mutant: the order type compared without upper()
price_checked_case_sensitive(order_type) == order_type \in {S_LIMIT, S_STOP_LIMIT}

\* line 128: the price rule applies
price_checked(order_type) == str_upper(order_type) \in {S_LIMIT, S_STOP_LIMIT}

\* line 133: the stop-price rule applies
stop_checked(order_type) == str_upper(order_type) = S_STOP_LIMIT

\* mutant: validation stops at the first violated rule
collect_errors_first_only(symbol, side, order_type, quantity, price, stop_price) ==
    IF ~validate_symbol(symbol) THEN <<MSG_SYMBOL>>
    ELSE IF ~validate_side(side) THEN <<MSG_SIDE>>
    ELSE IF ~validate_order_type(order_type) THEN <<MSG_TYPE>>
    ELSE IF ~validate_quantity(quantity) THEN <<MSG_QUANTITY>>
    ELSE IF price_checked(order_type) /\ (~Truthy(price) \/ ~validate_price(price))
    THEN <<MSG_PRICE>>
    ELSE IF stop_checked(order_type)
            /\ (~Truthy(stop_price) \/ ~validate_price(stop_price))
    THEN <<MSG_STOP>>
    ELSE <<>>

\* lines 109-135: the list errors when line 137 is reached
collect_errors(symbol, side, order_type, quantity, price, stop_price) ==
    append_if(~validate_symbol(symbol), MSG_SYMBOL)
    \o append_if(~validate_side(side), MSG_SIDE)
    \o append_if(~validate_order_type(order_type), MSG_TYPE)
    \o append_if(~validate_quantity(quantity), MSG_QUANTITY)
    \o append_if(price_checked(order_type)
                 /\ (~Truthy(price) \/ ~validate_price(price)), MSG_PRICE)
    \o append_if(stop_checked(order_type)
                 /\ (~Truthy(stop_price) \/ ~validate_price(stop_price)), MSG_STOP)

\* " | ".join(errors): the messages with a separator between neighbours
RECURSIVE join(_)
join(errors) ==
    IF Len(errors) = 0 THEN <<>>
    ELSE IF Len(errors) = 1 THEN errors
    ELSE <<Head(errors), SEP>> \o join(Tail(errors))

EmptyDict == [k \in {} |-> None]

\* lines 140-151: float(price) and float(stop_price) are evaluated unguarded
build_raises(price, stop_price) ==
    \/ Truthy(price) /\ ~float_ok(price)
    \/ Truthy(stop_price) /\ ~float_ok(stop_price)

\* mutant: the strings are stored as typed, without upper()
build_data_as_typed(symbol, side, order_type, quantity, price, stop_price) ==
    [k \in {"symbol", "side", "type", "quantity"}
           \cup (IF Truthy(price) THEN {"price"} ELSE {})
           \cup (IF Truthy(stop_price) THEN {"stopPrice"} ELSE {}) |->
        CASE k = "symbol" -> symbol
          [] k = "side" -> side
          [] k = "type" -> order_type
          [] k = "quantity" -> float(quantity)
          [] k = "price" -> float(price)
          [] k = "stopPrice" -> float(stop_price)]

build_data(symbol, side, order_type, quantity, price, stop_price) ==
    [k \in {"symbol", "side", "type", "quantity"}
           \cup (IF Truthy(price) THEN {"price"} ELSE {})
           \cup (IF Truthy(stop_price) THEN {"stopPrice"} ELSE {}) |->
        CASE k = "symbol" -> str_upper(symbol)
          [] k = "side" -> str_upper(side)
          [] k = "type" -> str_upper(order_type)
          [] k = "quantity" -> float(quantity)
          [] k = "price" -> float(price)
          [] k = "stopPrice" -> float(stop_price)]

\* The outcome of one call: raised = TRUE when a ValueError leaves the function
parse_and_validate_inputs(symbol, side, order_type, quantity, price, stop_price) ==
    LET errors == collect_errors(symbol, side, order_type, quantity, price, stop_price)
    IN  IF Len(errors) > 0
        THEN [raised |-> FALSE, is_valid |-> FALSE, error_msg |-> join(errors),
              data |-> EmptyDict]
        ELSE IF build_raises(price, stop_price)
        THEN [raised |-> TRUE, is_valid |-> FALSE, error_msg |-> <<>>,
              data |-> EmptyDict]
        ELSE [raised |-> FALSE, is_valid |-> TRUE, error_msg |-> <<>>,
              data |-> build_data(symbol, side, order_type, quantity, price, stop_price)]

----------------------------------------------------------------------------
(* Inputs: what the command line and the exchange can hand to the program *)

MaxBody == 2

SymChars == {"t", "1"}
RECURSIVE SeqsUpTo(_, _)
SeqsUpTo(S, n) ==
    IF n = 0 THEN {<<>>}
    ELSE LET shorter == SeqsUpTo(S, n - 1)
         IN  shorter \cup {Append(s, c) : s \in shorter, c \in S}

Suffixes == {<<>>, S_USDT, <<"E","T","H","B","T","C">>}
Symbols == {b \o s : b \in SeqsUpTo(SymChars, MaxBody), s \in Suffixes}

Sides == {S_BUY, <<"s","e","l","l">>, <<"H","O","L","D">>}
OrderTypes == {S_MARKET, <<"m","a","r","k","e","t">>,
               S_LIMIT, <<"L","i","m","i","t">>,
               S_STOP_LIMIT, <<"s","t","o","p","_","l","i","m","i","t">>,
               S_STOP}
Quantities == {<<"0",".","0","0","1">>, <<"0">>, <<"a","b","c">>}
Prices == {None, <<>>, <<"a","b","c">>, <<"-","5">>, <<"0">>, <<"2",".","5">>, S_nan}
StopPrices == {None, <<"a","b","c">>, <<"0">>, <<"1",".","5">>}

\* server_time['serverTime'] - local_time, as the exchange's clock decides
ServerOffsets == {0 - 1, 1}

\* exceptions futures_create_order can raise, by the except clause that sees them
OrderExceptions == {<<"BinanceAPIException">>, <<"BinanceRequestException">>,
                    <<"Exception">>}
ClientInitException == <<"ClientInitError">>
INFO_INIT == <<"Initializing Binance Futures client...">>
SUCCESS_MSG == <<"Order placed successfully!">>

recvWindow == 60000

NoMethod == [name |-> "none", kwargs |-> EmptyDict]

Init ==
    /\ pc = "parse_args"
    /\ args = [symbol |-> <<>>, side |-> <<>>, type |-> <<>>, quantity |-> <<>>,
               price |-> None, stop_price |-> None]
    /\ is_valid = FALSE
    /\ error_msg = <<>>
    /\ validated_data = EmptyDict
    /\ client = "none"
    /\ time_offset = 0
    /\ calls = <<>>
    /\ method = NoMethod
    /\ order = "none"
    /\ displayed = <<>>
    /\ exit_code = 0 - 1
    /\ traceback = FALSE

----------------------------------------------------------------------------
(* bot.py: main *)

display(kind, msg) == displayed' = Append(displayed, [kind |-> kind, msg |-> msg])

\* bot.py:102  args = parser.parse_args()
ParseArgs ==
    /\ pc = "parse_args"
    /\ \E sy \in Symbols, sd \in Sides, ty \in OrderTypes, q \in Quantities,
          p \in Prices, sp \in StopPrices :
          args' = [symbol |-> sy, side |-> sd, type |-> ty, quantity |-> q,
                   price |-> p, stop_price |-> sp]
    /\ pc' = "validate"
    /\ UNCHANGED <<is_valid, error_msg, validated_data, client, time_offset,
                   calls, method, order, displayed, exit_code, traceback>>

Validated == parse_and_validate_inputs(args.symbol, args.side, args.type,
                                       args.quantity, args.price, args.stop_price)

\* bot.py:105-112  the validator returns its triple
ValidateReturns ==
    /\ pc = "validate"
    /\ ~Validated.raised
    /\ is_valid' = Validated.is_valid
    /\ error_msg' = Validated.error_msg
    /\ validated_data' = Validated.data
    /\ pc' = "check"
    /\ UNCHANGED <<args, client, time_offset, calls, method, order, displayed,
                   exit_code, traceback>>

\* bot.py:105-112  the validator raises ValueError outside any try: the
\* interpreter prints a traceback and exits with status 1
ValidateRaises ==
    /\ pc = "validate"
    /\ Validated.raised
    /\ traceback' = TRUE
    /\ exit_code' = 1
    /\ pc' = "done"
    /\ UNCHANGED <<args, is_valid, error_msg, validated_data, client, time_offset,
                   calls, method, order, displayed>>

\* mutant: the error is displayed but sys.exit(1) is missing, so main falls
\* through into the try block and builds the client
RejectInvalid_no_exit ==
    /\ pc = "check"
    /\ ~is_valid
    /\ display("error", error_msg)
    /\ client' = "ok"
    /\ pc' = "init_sync"
    /\ UNCHANGED <<args, is_valid, error_msg, validated_data, time_offset,
                   calls, method, order, exit_code, traceback>>

\* bot.py:114-117
RejectInvalid ==
    /\ pc = "check"
    /\ ~is_valid
    /\ display("error", error_msg)
    /\ exit_code' = 1
    /\ pc' = "done"
    /\ UNCHANGED <<args, is_valid, error_msg, validated_data, client, time_offset,
                   calls, method, order, traceback>>

\* bot.py:156-160  except Exception as e: display_error(str(e)); sys.exit(1)
main_except(e) ==
    /\ display("error", e)
    /\ exit_code' = 1
    /\ pc' = "done"

\* bot.py:119-122 and basic_bot.py:27-33, 36-38: Client(...) is built, or its
\* exception is logged and re-raised to main
InitBot ==
    /\ pc = "check"
    /\ is_valid
    /\ \/ /\ client' = "ok"
          /\ time_offset' = 0
          /\ display("info", INFO_INIT)
          /\ pc' = "init_sync"
          /\ UNCHANGED exit_code
       \/ /\ client' = "raised"
          /\ displayed' = displayed \o <<[kind |-> "info", msg |-> INFO_INIT],
                                         [kind |-> "error", msg |-> ClientInitException]>>
          /\ exit_code' = 1
          /\ pc' = "done"
          /\ UNCHANGED time_offset
    /\ UNCHANGED <<args, is_valid, error_msg, validated_data, calls, method, order,
                   traceback>>

GetServerTime(raised) == [fn |-> "get_server_time", kwargs |-> EmptyDict,
                          raised |-> raised]

\* mutant: place_*_order reuses the offset of __init__ instead of asking again
sync_time_once ==
    /\ pc \in {"init_sync", "place_sync"}
    /\ IF pc = "init_sync"
       THEN \/ \E off \in ServerOffsets :
                  /\ calls' = Append(calls, GetServerTime(FALSE))
                  /\ time_offset' = off
            \/ /\ calls' = Append(calls, GetServerTime(TRUE))
               /\ time_offset' = 0
       ELSE UNCHANGED <<calls, time_offset>>
    /\ pc' = IF pc = "init_sync" THEN "dispatch" ELSE "create_order"
    /\ UNCHANGED <<args, is_valid, error_msg, validated_data, client, method, order,
                   displayed, exit_code, traceback>>

\* basic_bot.py:40-49  _sync_time, called from __init__ (line 34) and from
\* place_*_order (lines 72, 117, 170); a failure is logged and absorbed
sync_time ==
    /\ pc \in {"init_sync", "place_sync"}
    /\ \/ \E off \in ServerOffsets :
             /\ calls' = Append(calls, GetServerTime(FALSE))
             /\ time_offset' = off
       \/ /\ calls' = Append(calls, GetServerTime(TRUE))
          /\ time_offset' = 0
    /\ pc' = IF pc = "init_sync" THEN "dispatch" ELSE "create_order"
    /\ UNCHANGED <<args, is_valid, error_msg, validated_data, client, method, order,
                   displayed, exit_code, traceback>>

\* mutant: price and stop price change places in the STOP_LIMIT call
dispatch_swapped(data) ==
    IF data["type"] = S_MARKET
    THEN [name |-> "place_market_order",
          kwargs |-> [k \in {"symbol", "side", "quantity"} |-> data[k]]]
    ELSE IF data["type"] = S_LIMIT
    THEN [name |-> "place_limit_order",
          kwargs |-> [k \in {"symbol", "side", "quantity", "price"} |-> data[k]]]
    ELSE [name |-> "place_stop_limit_order",
          kwargs |-> [k \in {"symbol", "side", "quantity", "price", "stop_price"} |->
                        IF k = "stop_price" THEN data["price"]
                        ELSE IF k = "price" THEN data["stopPrice"] ELSE data[k]]]

\* bot.py:125-149  the place_*_order call main makes, with its keyword arguments
dispatch(data) ==
    IF data["type"] = S_MARKET
    THEN [name |-> "place_market_order",
          kwargs |-> [k \in {"symbol", "side", "quantity"} |-> data[k]]]
    ELSE IF data["type"] = S_LIMIT
    THEN [name |-> "place_limit_order",
          kwargs |-> [k \in {"symbol", "side", "quantity", "price"} |-> data[k]]]
    ELSE [name |-> "place_stop_limit_order",
          kwargs |-> [k \in {"symbol", "side", "quantity", "price", "stop_price"} |->
                        IF k = "stop_price" THEN data["stopPrice"] ELSE data[k]]]

\* keys main reads from validated_data on its way to the call
keys_read(data) ==
    IF "type" \notin DOMAIN data THEN {"type"}
    ELSE IF data["type"] = S_MARKET THEN {"type", "symbol", "side", "quantity"}
    ELSE IF data["type"] = S_LIMIT THEN {"type", "symbol", "side", "quantity", "price"}
    ELSE {"type", "symbol", "side", "quantity", "price", "stopPrice"}

\* a key the dict lacks raises KeyError inside the try block of main
Dispatch ==
    /\ pc = "dispatch"
    /\ IF keys_read(validated_data) \subseteq DOMAIN validated_data
       THEN /\ method' = dispatch(validated_data)
            /\ pc' = "place_sync"
            /\ UNCHANGED <<displayed, exit_code>>
       ELSE /\ main_except(<<"KeyError">>)
            /\ UNCHANGED method
    /\ UNCHANGED <<args, is_valid, error_msg, validated_data, client, time_offset,
                   calls, order, traceback>>

\* basic_bot.py:75-82, 120-129, 176-186  keyword arguments of futures_create_order;
\* timestamp is relative to the local clock (line 53)
create_order_kwargs(m, offset) ==
    LET a == m.kwargs
        common == ("symbol" :> a["symbol"]) @@ ("side" :> a["side"])
                  @@ ("quantity" :> a["quantity"]) @@ ("timestamp" :> offset)
                  @@ ("recvWindow" :> recvWindow)
    IN  IF m.name = "place_market_order"
        THEN common @@ ("type" :> S_MARKET)
        ELSE IF m.name = "place_limit_order"
        THEN common @@ ("type" :> S_LIMIT) @@ ("timeInForce" :> S_GTC)
                    @@ ("price" :> a["price"])
        ELSE common @@ ("type" :> S_STOP) @@ ("timeInForce" :> S_GTC)
                    @@ ("price" :> a["price"]) @@ ("stopPrice" :> a["stop_price"])

CreateOrderCall(raised) ==
    [fn |-> "futures_create_order", kwargs |-> create_order_kwargs(method, time_offset),
     raised |-> raised]

\* futures_create_order returns a receipt, which place_*_order returns to main
CreateOrderReturns ==
    /\ pc = "create_order"
    /\ calls' = Append(calls, CreateOrderCall(FALSE))
    /\ order' = "receipt"
    /\ pc' = "display"
    /\ UNCHANGED <<args, is_valid, error_msg, validated_data, client, time_offset,
                   method, displayed, exit_code, traceback>>

\* mutant: place_*_order catches the error and returns nothing instead of raising
CreateOrderRaises_swallowed ==
    /\ pc = "create_order"
    /\ calls' = Append(calls, CreateOrderCall(TRUE))
    /\ order' = "none"
    /\ pc' = "display"
    /\ UNCHANGED <<args, is_valid, error_msg, validated_data, client, time_offset,
                   method, displayed, exit_code, traceback>>

\* mutant: a failed submission is tried once more before the error is raised
CreateOrderRaises_retried ==
    /\ pc = "create_order"
    /\ calls' = calls \o <<CreateOrderCall(TRUE), CreateOrderCall(TRUE)>>
    /\ \E e \in OrderExceptions : main_except(e)
    /\ UNCHANGED <<args, is_valid, error_msg, validated_data, client, time_offset,
                   method, order, traceback>>

\* futures_create_order raises: every except clause of place_*_order logs and
\* re-raises (basic_bot.py:87-95, 134-142, 191-199), and main's handler ends the run
CreateOrderRaises ==
    /\ pc = "create_order"
    /\ calls' = Append(calls, CreateOrderCall(TRUE))
    /\ \E e \in OrderExceptions : main_except(e)
    /\ UNCHANGED <<args, is_valid, error_msg, validated_data, client, time_offset,
                   method, order, traceback>>

\* bot.py:151-154, then main returns: exit status 0
DisplaySuccess ==
    /\ pc = "display"
    /\ displayed' = displayed \o <<[kind |-> "table", msg |-> <<order>>],
                                   [kind |-> "success", msg |-> SUCCESS_MSG]>>
    /\ exit_code' = 0
    /\ pc' = "done"
    /\ UNCHANGED <<args, is_valid, error_msg, validated_data, client, time_offset,
                   calls, method, order, traceback>>

Next ==
    \/ ParseArgs
    \/ ValidateReturns
    \/ ValidateRaises
    \/ RejectInvalid
    \/ InitBot
    \/ sync_time
    \/ Dispatch
    \/ CreateOrderReturns
    \/ CreateOrderRaises
    \/ DisplaySuccess

Spec == Init /\ [][Next]_vars

----------------------------------------------------------------------------
(* Vocabulary of the properties *)

\* the validator has returned to main (it did not raise)
Returned == pc \notin {"parse_args", "validate"} /\ ~traceback
ReturnedInvalid == Returned /\ ~is_valid
ReturnedValid == Returned /\ is_valid

ErrorsShown == SelectSeq(displayed, LAMBDA d : d.kind = "error")
SuccessShown == SelectSeq(displayed, LAMBDA d : d.kind \in {"table", "success"})
Contains(msg, m) == \E i \in 1..Len(msg) : msg[i] = m
OrderCalls == SelectSeq(calls, LAMBDA c : c.fn = "futures_create_order")

\* the field rules as the specification words them
AllUpperAlpha(s) == \A i \in 1..Len(s) : IsUpperChar(s[i])
EndsWithUSDT(s) == Len(s) >= 4 /\ \A i \in 1..4 : s[Len(s) - 4 + i] = S_USDT[i]
SymbolRule(s) == Len(s) >= 6 /\ (AllUpperAlpha(s) \/ EndsWithUSDT(s))
SideRule(s) == \E v \in {S_BUY, S_SELL} : str_upper(s) = v
TypeRule(s) == \E v \in {S_MARKET, S_LIMIT, S_STOP_LIMIT} : str_upper(s) = v
NumberRule(s) == s # None /\ float_ok(s) /\ ~float(s).nan /\ float(s).val >= 1
NeedsPrice(ty) == str_upper(ty) = S_LIMIT \/ str_upper(ty) = S_STOP_LIMIT
NeedsStop(ty) == str_upper(ty) = S_STOP_LIMIT

\* the violated rules' messages, in the fixed order of the fields
Violations(a) ==
    LET bad == [i \in 1..6 |->
                  CASE i = 1 -> ~SymbolRule(a.symbol)
                    [] i = 2 -> ~SideRule(a.side)
                    [] i = 3 -> ~TypeRule(a.type)
                    [] i = 4 -> ~NumberRule(a.quantity)
                    [] i = 5 -> NeedsPrice(a.type) /\ ~NumberRule(a.price)
                    [] i = 6 -> NeedsStop(a.type) /\ ~NumberRule(a.stop_price)]
        msgs == <<MSG_SYMBOL, MSG_SIDE, MSG_TYPE, MSG_QUANTITY, MSG_PRICE, MSG_STOP>>
        F[i \in 0..6] ==
            IF i = 0 THEN <<>>
            ELSE IF bad[i] THEN Append(F[i - 1], msgs[i]) ELSE F[i - 1]
    IN  F[6]

----------------------------------------------------------------------------
(* C1: when the validator returns Invalid, main displays the message and    *)
(* exits with code 1 before anything touches the exchange client: no client *)
(* is built, no call is issued, no place_*_order is invoked; and whatever   *)
(* place_*_order call is made carries the data of a Valid result.           *)
C1_InvalidNeverReachesClient ==
    /\ ReturnedInvalid =>
          /\ client = "none" /\ calls = <<>> /\ method = NoMethod
          /\ pc = "done" => /\ exit_code = 1
                            /\ displayed = <<[kind |-> "error", msg |-> error_msg]>>
    /\ (client # "none" \/ calls # <<>> \/ method # NoMethod) => ReturnedValid
    /\ method # NoMethod => method = dispatch(validated_data)

C1_Witness ==
    /\ pc = "done" /\ ReturnedInvalid /\ exit_code = 1
    /\ Len(displayed) = 1 /\ calls = <<>> /\ client = "none"

(* C2: a Valid descriptor has a price field iff its type is LIMIT or        *)
(* STOP_LIMIT and a stopPrice field iff its type is STOP_LIMIT, and every   *)
(* price or stopPrice field present is strictly positive.                   *)
C2_PriceFieldsFollowType ==
    ReturnedValid =>
       /\ "price" \in DOMAIN validated_data
             <=> validated_data["type"] \in {S_LIMIT, S_STOP_LIMIT}
       /\ "stopPrice" \in DOMAIN validated_data
             <=> validated_data["type"] = S_STOP_LIMIT
       /\ "price" \in DOMAIN validated_data => Positive(validated_data["price"])
       /\ "stopPrice" \in DOMAIN validated_data => Positive(validated_data["stopPrice"])

(* C3: for every combination of inputs the validator returns, either        *)
(* (True, empty message, complete descriptor) or (False, non-empty message, *)
(* empty descriptor); it never ends by raising.                             *)
C3_ValidatorAlwaysReturns ==
    pc \notin {"parse_args", "validate"} =>
       /\ ~traceback
       /\ \/ /\ is_valid /\ error_msg = <<>>
             /\ {"symbol", "side", "type", "quantity"} \subseteq DOMAIN validated_data
          \/ /\ ~is_valid /\ error_msg # <<>> /\ DOMAIN validated_data = {}

(* C4 as stated: in an invocation that passes validation, the calls issued  *)
(* to the exchange client up to the end of place_*_order number exactly 1.  *)
C4_ExactlyOneClientCall ==
    (ReturnedValid /\ method # NoMethod /\ pc \in {"display", "done"}) =>
       Len(calls) = 1

(* C4 amended: in an invocation that passes validation, once place_*_order  *)
(* has returned or raised exactly three client calls have been issued:      *)
(* get_server_time (from __init__), get_server_time (from place_*_order)    *)
(* and then futures_create_order, once; when client construction raised,    *)
(* none has been issued.                                                    *)
C4_ThreeClientCalls ==
    (ReturnedValid /\ pc \in {"display", "done"}) =>
       IF client = "raised" THEN calls = <<>>
       ELSE /\ Len(calls) = 3
            /\ calls[1].fn = "get_server_time"
            /\ calls[2].fn = "get_server_time"
            /\ calls[3].fn = "futures_create_order"

C4_Witness ==
    /\ pc = "done" /\ exit_code = 0 /\ Len(calls) = 3 /\ Len(OrderCalls) = 1

(* C5 as stated: no exception raised by the exchange client (construction,  *)
(* get_server_time, futures_create_order) is absorbed: each ends the run in *)
(* main's handler, displayed, with a nonzero exit code, and nothing is      *)
(* called after it.                                                         *)
C5_NoClientErrorSwallowed ==
    /\ client = "raised" => pc = "done" /\ exit_code = 1 /\ Len(ErrorsShown) = 1
    /\ \A i \in 1..Len(calls) :
          calls[i].raised =>
             /\ i = Len(calls)
             /\ pc = "done" /\ exit_code = 1 /\ Len(ErrorsShown) = 1

(* C5 amended: an exception raised by client construction or by             *)
(* futures_create_order is not swallowed: it reaches main, which displays   *)
(* it and exits with code 1, and the success path is not taken.  An         *)
(* exception raised by get_server_time inside _sync_time is absorbed:       *)
(* time_offset is reset to 0 and execution continues to the submission.     *)
C5_OnlyTimeSyncErrorsAbsorbed ==
    /\ client = "raised" =>
          /\ pc = "done" /\ exit_code = 1 /\ calls = <<>>
          /\ ErrorsShown = <<[kind |-> "error", msg |-> ClientInitException]>>
          /\ SuccessShown = <<>>
    /\ \A i \in 1..Len(calls) :
          calls[i].raised =>
             IF calls[i].fn = "futures_create_order"
             THEN /\ i = Len(calls)
                  /\ pc = "done" /\ exit_code = 1 /\ order = "none"
                  /\ Len(ErrorsShown) = 1
                  /\ ErrorsShown[1].msg \in OrderExceptions
                  /\ SuccessShown = <<>>
             ELSE /\ i = Len(calls) => time_offset = 0
                  /\ pc \in {"dispatch", "place_sync", "create_order"}
                        => exit_code = 0 - 1 /\ ErrorsShown = <<>>
                  /\ pc \in {"display", "done"} => Len(OrderCalls) = 1

C5_Witness ==
    /\ pc = "done" /\ exit_code = 1
    /\ Len(calls) = 3 /\ calls[3].raised /\ ~calls[1].raised /\ ~calls[2].raised

(* C6: the exit code is 1 if validation fails or client construction or the *)
(* submission raises, and 0 exactly when validation succeeded and the       *)
(* submission returned a receipt; the success table and message are shown   *)
(* only when the exit code is 0; every exit-1 path shows exactly one error  *)
(* message.                                                                 *)
C6_ExitCodes ==
    pc = "done" =>
       /\ exit_code \in {0, 1}
       /\ exit_code = 0 <=> (is_valid /\ order = "receipt")
       /\ SuccessShown # <<>> => exit_code = 0
       /\ exit_code = 1 => Len(ErrorsShown) = 1

(* C7: every field rule is evaluated: the message returned is the ' | '     *)
(* join of the messages of exactly the violated rules, one each, in the     *)
(* order symbol, side, order type, quantity, price, stop price.  A          *)
(* STOP_LIMIT request with a valid price and a missing or non-positive stop *)
(* price gets the stop-price message and not the price message.             *)
C7_AllViolationsReported ==
    Returned =>
       /\ error_msg = join(Violations(args))
       /\ (str_upper(args.type) = S_STOP_LIMIT /\ NumberRule(args.price)
           /\ ~NumberRule(args.stop_price))
             => Contains(error_msg, MSG_STOP) /\ ~Contains(error_msg, MSG_PRICE)

C7_Witness ==
    /\ Returned
    /\ str_upper(args.type) = S_STOP_LIMIT /\ NumberRule(args.price)
    /\ error_msg = <<MSG_SYMBOL, SEP, MSG_SIDE, SEP, MSG_QUANTITY, SEP, MSG_STOP>>

(* C8: a Valid result means every field the order type requires is present *)
(* and passes its rule; a LIMIT or STOP_LIMIT request in any letter case    *)
(* with price absent or <= 0 is Invalid with the price violation in its     *)
(* message, whatever the other fields.                                      *)
C8_ValidOnlyIfRulesPass ==
    /\ ReturnedValid =>
          /\ SymbolRule(args.symbol) /\ SideRule(args.side) /\ TypeRule(args.type)
          /\ NumberRule(args.quantity)
          /\ NeedsPrice(args.type) =>
                /\ NumberRule(args.price)
                /\ "price" \in DOMAIN validated_data
                /\ Positive(validated_data["price"])
          /\ NeedsStop(args.type) =>
                /\ NumberRule(args.stop_price)
                /\ "stopPrice" \in DOMAIN validated_data
                /\ Positive(validated_data["stopPrice"])
    /\ (pc \notin {"parse_args", "validate"}
        /\ NeedsPrice(args.type) /\ ~NumberRule(args.price))
          => ReturnedInvalid /\ Contains(error_msg, MSG_PRICE)

C8_Witness ==
    /\ ReturnedInvalid
    /\ args.type = <<"L","i","m","i","t">> /\ args.price = None
    /\ error_msg = <<MSG_PRICE>>

(* C9: validate_symbol(s) holds iff s is non-empty, has length >= 6 and is  *)
(* made of uppercase letters only or ends with "USDT"; every symbol shorter *)
(* than 6, one ending in USDT included, gets the "Invalid symbol" message.  *)
C9_SymbolRule ==
    /\ pc # "parse_args" => (validate_symbol(args.symbol) <=> SymbolRule(args.symbol))
    /\ Returned => (Contains(error_msg, MSG_SYMBOL) <=> ~SymbolRule(args.symbol))
    /\ (pc \notin {"parse_args", "validate"} /\ Len(args.symbol) < 6)
          => ReturnedInvalid /\ error_msg[1] = MSG_SYMBOL

C9_Witness ==
    /\ ReturnedInvalid
    /\ args.symbol = <<"t">> \o S_USDT
    /\ error_msg = <<MSG_SYMBOL>>

(* C10: for a Valid order main calls the one operation its type selects     *)
(* with the prescribed fields, taken from the descriptor: MARKET ->         *)
(* place_market_order, symbol, side, quantity and nothing else; LIMIT ->    *)
(* place_limit_order, with price and timeInForce GTC; STOP_LIMIT ->         *)
(* place_stop_limit_order, with price, stopPrice and timeInForce GTC, sent  *)
(* as exchange type STOP.                                                   *)
OrderFields(kw) == DOMAIN kw \ {"timestamp", "recvWindow"}
SameBase(kw, d) ==
    kw["symbol"] = d["symbol"] /\ kw["side"] = d["side"] /\ kw["quantity"] = d["quantity"]

C10_DispatchByType ==
    /\ method # NoMethod =>
          method.name = (CASE validated_data["type"] = S_MARKET -> "place_market_order"
                           [] validated_data["type"] = S_LIMIT -> "place_limit_order"
                           [] validated_data["type"] = S_STOP_LIMIT
                                 -> "place_stop_limit_order")
    /\ Len(OrderCalls) <= 1
    /\ \A i \in 1..Len(OrderCalls) :
          LET kw == OrderCalls[i].kwargs
              d == validated_data
          IN  CASE d["type"] = S_MARKET ->
                     /\ OrderFields(kw) = {"symbol", "side", "type", "quantity"}
                     /\ kw["type"] = S_MARKET /\ SameBase(kw, d)
                [] d["type"] = S_LIMIT ->
                     /\ OrderFields(kw) = {"symbol", "side", "type", "quantity",
                                           "price", "timeInForce"}
                     /\ kw["type"] = S_LIMIT /\ SameBase(kw, d)
                     /\ kw["price"] = d["price"] /\ kw["timeInForce"] = S_GTC
                [] d["type"] = S_STOP_LIMIT ->
                     /\ OrderFields(kw) = {"symbol", "side", "type", "quantity",
                                           "price", "stopPrice", "timeInForce"}
                     /\ kw["type"] = S_STOP /\ SameBase(kw, d)
                     /\ kw["price"] = d["price"] /\ kw["stopPrice"] = d["stopPrice"]
                     /\ kw["timeInForce"] = S_GTC

C10_Witness ==
    /\ Len(OrderCalls) = 1
    /\ validated_data["type"] = S_MARKET
    /\ {"price", "stopPrice"} \subseteq DOMAIN validated_data
    /\ OrderFields(OrderCalls[1].kwargs) = {"symbol", "side", "type", "quantity"}

(* C11: in every invocation, whatever validation, time sync or the client   *)
(* call do, futures_create_order is called at most once: a failed           *)
(* submission is not retried, no second order is submitted, and nothing     *)
(* (cancel, rollback) is called after a failure.                            *)
C11_AtMostOneSubmission ==
    /\ Len(OrderCalls) <= 1
    /\ \A i \in 1..Len(calls) :
          /\ calls[i].fn \in {"get_server_time", "futures_create_order"}
          /\ calls[i].fn = "futures_create_order" => i = Len(calls)
    /\ (~ReturnedValid \/ client = "raised") => calls = <<>>
    /\ pc = "done" /\ exit_code = 0 => Len(OrderCalls) = 1

C11_Witness ==
    /\ pc = "done" /\ exit_code = 1
    /\ Len(calls) = 3 /\ calls[1].raised /\ calls[2].raised /\ calls[3].raised
    /\ Len(OrderCalls) = 1 /\ OrderCalls[1].raised

(* C12: a Valid descriptor's symbol, side and type are the upper-cased      *)
(* inputs, with side in {BUY, SELL} and type in {MARKET, LIMIT,             *)
(* STOP_LIMIT}; side and order type are accepted in any letter case; a side *)
(* whose upper-casing is neither BUY nor SELL is reported as a side         *)
(* violation.                                                               *)
UpperOf(s, u) ==
    /\ Len(u) = Len(s)
    /\ \A i \in 1..Len(s) :
          \/ u[i] = s[i] /\ ~IsLowerChar(s[i])
          \/ \E j \in DOMAIN LowerSeq : LowerSeq[j] = s[i] /\ UpperSeq[j] = u[i]

C12_UpperCasedFields ==
    pc \notin {"parse_args", "validate"} =>
       /\ ReturnedValid =>
             /\ UpperOf(args.symbol, validated_data["symbol"])
             /\ UpperOf(args.side, validated_data["side"])
             /\ UpperOf(args.type, validated_data["type"])
             /\ validated_data["side"] \in {S_BUY, S_SELL}
             /\ validated_data["type"] \in {S_MARKET, S_LIMIT, S_STOP_LIMIT}
       /\ IF \E v \in {S_BUY, S_SELL} : UpperOf(args.side, v)
          THEN ~Contains(error_msg, MSG_SIDE)
          ELSE ReturnedInvalid /\ Contains(error_msg, MSG_SIDE)
       /\ IF \E v \in {S_MARKET, S_LIMIT, S_STOP_LIMIT} : UpperOf(args.type, v)
          THEN ~Contains(error_msg, MSG_TYPE)
          ELSE ReturnedInvalid /\ Contains(error_msg, MSG_TYPE)

C12_Witness ==
    /\ ReturnedValid
    /\ args.side = <<"s","e","l","l">> /\ validated_data["side"] = S_SELL
    /\ args.type = <<"m","a","r","k","e","t">> /\ validated_data["type"] = S_MARKET
    /\ args.symbol = <<"t","1">> \o S_USDT
    /\ validated_data["symbol"] = <<"T","1">> \o S_USDT

====
